---- MODULE Spec2Model ----
(***************************************************************************)
(* A model of lit_nlp/client/modules/metrics_module.ts: the MetricsModule  *)
(* that fetches per-model metrics for the dataset, the selection, the      *)
(* slices and the facet groups, merges them into metricsMap and counts     *)
(* the addMetrics calls in flight.                                         *)
(*                                                                         *)
(* JavaScript runs one task at a time: an event handler (a reaction, a     *)
(* checkbox handler, the arrival of a backend response) runs to its end,   *)
(* then the continuations it made ready (microtasks) run before the next   *)
(* task.  A task is one action; the continuation of addMetrics after its   *)
(* await is the action Resume, and no task starts while a continuation is  *)
(* ready.                                                                  *)
(***************************************************************************)
EXTENDS Integers, Sequences, FiniteSets, TLC

VARIABLES
  pc,                \* "constructed" before firstUpdated, "ready" after it
  currentInputData,  \* appState.currentInputData: ids of the dataset's examples
  selectedInputData, \* selectionService.selectedInputData: ids of the selection
  currentModels,     \* appState.currentModels
  marginSettings,    \* classificationService.marginSettings: model -> config
  slices,            \* sliceService: sequence of [name, data]
  metricsMap,        \* the rows, in the object's key order (insertion order)
  facetBySlice,
  selectedFacets,
  pendingCalls,
  calls,             \* every addMetrics invocation issued so far
  sent,              \* <<call, model index>> of every apiService.getInterpretations call
  events,            \* the state-change notifications delivered so far
  lastSettled,       \* history: per row key and generator written since the row
                     \* was last deleted, what the last settled batch wrote there
  keyArgs,           \* KeySpec: two argument tuples of getRowKey
  keyOut             \* KeySpec: the two keys returned for keyArgs

vars == <<pc, currentInputData, selectedInputData, currentModels, marginSettings,
          slices, metricsMap, facetBySlice, selectedFacets, pendingCalls, calls,
          sent, events, lastSettled, keyArgs, keyOut>>

envVars == <<currentInputData, selectedInputData, currentModels, marginSettings,
             slices>>

keyVars == <<keyArgs, keyOut>>

-----------------------------------------------------------------------------
(* Bounds of the model. *)

\* addMetrics invocations issued in one behaviour
MaxCalls == 3

\* scoring requests sent to the backend in one behaviour
MaxSent == 3

\* state-change notifications delivered after firstUpdated in one behaviour
MaxEvents == 2

-----------------------------------------------------------------------------
(* The values the collaborators of the module supply. *)

\* enum Source
DATASET == "dataset"
SELECTION == "selection"
SLICE == "slice"

\* an absent optional argument (facetMap?: FacetMap, displayName?: string)
NoFacetMap == [isNull |-> TRUE, kv |-> <<>>]
NoName == [isNull |-> TRUE, val |-> ""]
SomeFacetMap(kv) == [isNull |-> FALSE, kv |-> kv]
SomeName(s) == [isNull |-> FALSE, val |-> s]

\* the example lists the dataset ranges over
DataChoices == {<<>>, <<"e1">>, <<"e1", "e2">>}

\* the example lists the selection ranges over
SelectionChoices == {<<>>, <<"e1">>}

\* the model lists the application may run with
ModelChoices == {<<>>, <<"m">>, <<"m", "n">>}

AllModels == {"m", "n"}

\* a margin configuration: 0 is "none set for the model" (the call sends {})
MarginChoices == {0, 1}

\* the facet dimensions groupService.categoricalAndNumericalFeatureNames offers
FeatureNames == {"f"}

\* the value of feature feat of the example with this id
FeatureVal(id, feat) == IF id = "e1" THEN "x" ELSE "y"

\* the named slices the slice service may hold
SliceChoices ==
  { <<>>,
    <<[name |-> "dataset", data |-> <<"e2">>], [name |-> "t", data |-> <<>>]>> }

\* what the backend may answer to one scoring request: generator name ->
\* list of entries, each with its pred_key and its metric values
Responses ==
  << <<[gen |-> "regression",
        entries |-> <<[pred_key |-> "label",
                       metrics |-> <<[name |-> "mse", val |-> 3]>>]>>]>>,
     <<[gen |-> "classification",
        entries |-> <<[pred_key |-> "label",
                       metrics |-> <<[name |-> "accuracy", val |-> 2]>>]>>],
       [gen |-> "regression",
        entries |-> <<[pred_key |-> "label",
                       metrics |-> <<[name |-> "mse", val |-> 4]>>]>>]>> >>

-----------------------------------------------------------------------------
(* getRowKey *)

RECURSIVE FacetString(_)
FacetString(kv) ==
  IF kv = <<>> THEN ""
  ELSE kv[1].val \o "-" \o FacetString(Tail(kv))

getRowKey(model, datapointsId, predKey, facetMap) ==
  LET facetString == IF facetMap.isNull THEN "" ELSE FacetString(facetMap.kv)
  IN model \o "-" \o datapointsId \o "-" \o predKey \o "-" \o facetString

-----------------------------------------------------------------------------
(* The store: metricsMap as the sequence of its rows in key order. *)

\* the position of the row stored under key, 0 when there is none
KeyIndex(mm, key) ==
  IF \E i \in 1..Len(mm) : mm[i].key = key
  THEN CHOOSE i \in 1..Len(mm) : mm[i].key = key
  ELSE 0

\* the tests of the three delete loops
IsSelectionRow(row) == row.source = SELECTION
IsSliceRow(row) == row.source = SLICE
HasFacets(row) == ~row.facets.isNull

\* the selection reaction without its delete loop
EvictSelectionKeepsRows(mm) == mm

\* delete metricsMap[key] for every key whose row passes the loop's test
EvictSelection(mm) == SelectSeq(mm, LAMBDA row : ~IsSelectionRow(row))
EvictSlices(mm) == SelectSeq(mm, LAMBDA row : ~IsSliceRow(row))
EvictFaceted(mm) == SelectSeq(mm, LAMBDA row : ~HasFacets(row))

\* headMetrics replaced by the one entry written
SetEntryOnly(hm, gen, metrics) == <<[gen |-> gen, metrics |-> metrics]>>

\* headMetrics[metricsType] = metrics on an object kept as a list of entries
SetEntry(hm, gen, metrics) ==
  IF \E i \in 1..Len(hm) : hm[i].gen = gen
  THEN [i \in 1..Len(hm) |->
          IF hm[i].gen = gen THEN [gen |-> gen, metrics |-> metrics] ELSE hm[i]]
  ELSE Append(hm, [gen |-> gen, metrics |-> metrics])

\* the write that creates the row when there is none and leaves the example
\* ids of an existing row as they are
WriteResultKeepsIds(mm, model, name, predKey, gen, metrics, ids, facetMap, source) ==
  LET rowKey == getRowKey(model, name, predKey, facetMap)
      created == IF KeyIndex(mm, rowKey) = 0
                 THEN Append(mm, [key |-> rowKey, model |-> model,
                                  selection |-> name, exampleIds |-> ids,
                                  predKey |-> predKey, headMetrics |-> <<>>,
                                  facets |-> facetMap, source |-> source])
                 ELSE mm
      i == KeyIndex(created, rowKey)
  IN [created EXCEPT ![i].headMetrics = SetEntry(@, gen, metrics)]

\* the write that appends the example ids to those of the row
WriteResultAppendsIds(mm, model, name, predKey, gen, metrics, ids, facetMap, source) ==
  LET rowKey == getRowKey(model, name, predKey, facetMap)
      created == IF KeyIndex(mm, rowKey) = 0
                 THEN Append(mm, [key |-> rowKey, model |-> model,
                                  selection |-> name, exampleIds |-> <<>>,
                                  predKey |-> predKey, headMetrics |-> <<>>,
                                  facets |-> facetMap, source |-> source])
                 ELSE mm
      i == KeyIndex(created, rowKey)
  IN [created EXCEPT ![i].exampleIds = @ \o ids,
                     ![i].headMetrics = SetEntry(@, gen, metrics)]

\* the body of metricsRespones.forEach: one returned entry written to its row
WriteResult(mm, model, name, predKey, gen, metrics, ids, facetMap, source) ==
  LET rowKey == getRowKey(model, name, predKey, facetMap)
      created == IF KeyIndex(mm, rowKey) = 0
                 THEN Append(mm, [key |-> rowKey,
                                  model |-> model,
                                  selection |-> name,
                                  exampleIds |-> ids,
                                  predKey |-> predKey,
                                  headMetrics |-> <<>>,
                                  facets |-> facetMap,
                                  source |-> source])
                 ELSE mm
      i == KeyIndex(created, rowKey)
  IN [created EXCEPT ![i].exampleIds = ids,
                     ![i].headMetrics = SetEntry(@, gen, metrics)]

\* the label of the rows of a call
RowName(source, facetMap, displayName) ==
  LET name == IF ~displayName.isNull THEN displayName.val ELSE source
  IN IF ~facetMap.isNull THEN name \o " (faceted)" ELSE name

\* the writes of one model's returned metrics, in the order the loops make them
RECURSIVE EntryWrites(_, _, _)
EntryWrites(model, gen, entries) ==
  IF entries = <<>> THEN <<>>
  ELSE <<[model |-> model, gen |-> gen, predKey |-> entries[1].pred_key,
          metrics |-> entries[1].metrics]>>
       \o EntryWrites(model, gen, Tail(entries))

RECURSIVE ResponseWrites(_, _)
ResponseWrites(model, returnedMetrics) ==
  IF returnedMetrics = <<>> THEN <<>>
  ELSE EntryWrites(model, returnedMetrics[1].gen, returnedMetrics[1].entries)
       \o ResponseWrites(model, Tail(returnedMetrics))

RECURSIVE ApplyWrites(_, _, _)
ApplyWrites(mm, ws, c) ==
  IF ws = <<>> THEN mm
  ELSE ApplyWrites(
         WriteResult(mm, ws[1].model, RowName(c.source, c.facetMap, c.displayName),
                     ws[1].predKey, ws[1].gen, ws[1].metrics, c.datapoints,
                     c.facetMap, c.source),
         Tail(ws), c)

-----------------------------------------------------------------------------
(* addMetrics: the call up to its await, and its continuation. *)

\* the module's own state, threaded through the calls of one handler
Mod == [metricsMap |-> metricsMap, pendingCalls |-> pendingCalls,
        calls |-> calls, sent |-> sent]

\* what a handler reads from the services and from the module's settings
Env == [models |-> currentModels, margins |-> marginSettings,
        dataset |-> currentInputData, selection |-> selectedInputData,
        selectedFacets |-> selectedFacets, facetBySlice |-> facetBySlice,
        slices |-> slices]

\* getMetrics without its guard on the inputs
getMetricsUnguarded(selectedInputs, model, margins) ==
  [st |-> "pending", resp |-> 0, config |-> margins[model]]

\* getMetrics up to its await: returns undefined at once for no inputs
\* ("skipped"), else reads the model's margin config and sends the request
getMetrics(selectedInputs, model, margins) ==
  IF selectedInputs = <<>>
  THEN [st |-> "skipped", resp |-> 0, config |-> 0]
  ELSE [st |-> "pending", resp |-> 0, config |-> margins[model]]

\* this.pendingCalls += 1
CallIncrement(p) == p + 1

\* the try block without its decrement
TryKeeps(p) == p

\* this.pendingCalls -= 1 after the await returned
TryDecrement(p) == p - 1

\* the catch block without its decrement
CatchKeeps(p) == p

\* this.pendingCalls -= 1 in the catch block
CatchDecrement(p) == p - 1

\* addMetrics from its entry to the await of Promise.all
addMetrics(M, E, datapoints, source, facetMap, displayName) ==
  LET models == E.models
      n == Len(M.calls) + 1
      reqs == [j \in 1..Len(models) |->
                 getMetrics(datapoints, models[j], E.margins)]
  IN [M EXCEPT
        !.pendingCalls = CallIncrement(@),
        !.calls = Append(@, [datapoints |-> datapoints, source |-> source,
                             facetMap |-> facetMap, displayName |-> displayName,
                             models |-> models, reqs |-> reqs,
                             settled |-> "awaiting", result |-> "pending"]),
        !.sent = @ \cup {<<n, j>> : j \in {k \in 1..Len(models) :
                                             reqs[k].st = "pending"}}]

\* Promise.all of the call's requests: rejected with the first request that
\* fails, fulfilled when every one is fulfilled, pending otherwise
AllState(c) ==
  IF \E j \in 1..Len(c.reqs) : c.reqs[j].st = "failed" THEN "rejected"
  ELSE IF \A j \in 1..Len(c.reqs) : c.reqs[j].st \in {"ok", "skipped"}
       THEN "fulfilled"
       ELSE "pending"

\* datasetMetrics that keeps the fulfilled results of a rejected batch
DatasetMetricsPartial(c) ==
  SelectSeq(c.reqs, LAMBDA q : q.st \in {"ok", "skipped"})

\* datasetMetrics after the try block: the results on success, [] in the catch
DatasetMetrics(c) ==
  IF AllState(c) = "fulfilled" THEN c.reqs ELSE <<>>

\* datasetMetrics.forEach from element i on: Object.keys(undefined) throws a
\* TypeError, which ends the loop and rejects the call
RECURSIVE MergeFrom(_, _, _, _)
MergeFrom(mm, c, datasetMetrics, i) ==
  IF i > Len(datasetMetrics) THEN [mm |-> mm, threw |-> FALSE]
  ELSE IF datasetMetrics[i].st = "skipped" THEN [mm |-> mm, threw |-> TRUE]
  ELSE MergeFrom(
         ApplyWrites(mm, ResponseWrites(c.models[i],
                                        Responses[datasetMetrics[i].resp]), c),
         c, datasetMetrics, i + 1)

\* the rows after the call's results were added to mm
Merge(mm, c) == MergeFrom(mm, c, DatasetMetrics(c), 1)

\* request j of call c after the backend answered it; the answer to a request
\* of a call that already finished is dropped
Settled(c, j, st, r) ==
  IF c.settled = "awaiting"
  THEN [c.reqs[j] EXCEPT !.st = st, !.resp = r]
  ELSE [st |-> st, resp |-> 0, config |-> 0]

\* a call after its continuation ran: the outcome of its await and of the
\* call itself; the results it held are dropped with its closure, the requests
\* of a rejected Promise.all that are still out stay out
Finished(c, threw) ==
  [c EXCEPT !.settled = AllState(c),
            !.result = IF threw THEN "rejected" ELSE "fulfilled",
            !.reqs = [j \in 1..Len(c.reqs) |->
                        [st |-> c.reqs[j].st, resp |-> 0, config |-> 0]]]

\* every write of the call's results, in the order the loops make them
RECURSIVE WritesFrom(_, _, _)
WritesFrom(c, datasetMetrics, i) ==
  IF i > Len(datasetMetrics) \/ datasetMetrics[i].st = "skipped" THEN <<>>
  ELSE ResponseWrites(c.models[i], Responses[datasetMetrics[i].resp])
       \o WritesFrom(c, datasetMetrics, i + 1)

AllWrites(c) == WritesFrom(c, DatasetMetrics(c), 1)

WriteKey(w, c) ==
  getRowKey(w.model, RowName(c.source, c.facetMap, c.displayName), w.predKey,
            c.facetMap)

\* the margin config call c sent with its request for model
ConfigOf(c, model) ==
  c.reqs[CHOOSE j \in 1..Len(c.models) : c.models[j] = model].config

\* the history after call c settled: for every key and generator it wrote, its
\* example ids, the metrics of its last write there, the model and the margin
\* config of the request that returned them, whether one batch wrote there
\* (n = 1) or more (n = 2), and the rank of this settlement: one more than the
\* highest rank recorded, so a later settlement has a higher rank
Record(hist, c) ==
  LET ws == AllWrites(c)
      rank == IF hist = {} THEN 1
              ELSE 1 + (CHOOSE r \in {e.rank : e \in hist} :
                          \A e \in hist : e.rank <= r)
      hit(e) == \E k \in 1..Len(ws) : WriteKey(ws[k], c) = e.key /\ ws[k].gen = e.gen
      last(k) == \A l \in (k + 1)..Len(ws) :
                   ~(WriteKey(ws[l], c) = WriteKey(ws[k], c) /\ ws[l].gen = ws[k].gen)
      before(k) == {e \in hist : e.key = WriteKey(ws[k], c) /\ e.gen = ws[k].gen}
  IN {e \in hist : ~hit(e)}
     \cup {[key |-> WriteKey(ws[k], c), gen |-> ws[k].gen, ids |-> c.datapoints,
            metrics |-> ws[k].metrics,
            model |-> ws[k].model, config |-> ConfigOf(c, ws[k].model),
            n |-> IF before(k) = {} THEN 1 ELSE 2,
            rank |-> rank] : k \in {k \in 1..Len(ws) : last(k)}}

\* a call whose await can return: its continuation is a ready microtask
Ready(i) == calls[i].settled = "awaiting" /\ AllState(calls[i]) # "pending"

NoMicrotask == \A i \in 1..Len(calls) : ~Ready(i)

-----------------------------------------------------------------------------
(* The update routines. *)

\* groupService.groupExamplesByFeatures: the groups of the examples that
\* agree on every selected feature, in the order their first example comes
GroupFacets(id, facets) ==
  [i \in 1..Len(facets) |-> [name |-> facets[i], val |-> FeatureVal(id, facets[i])]]

RECURSIVE GroupInto(_, _, _)
GroupInto(groups, datapoints, facets) ==
  IF datapoints = <<>> THEN groups
  ELSE LET id == datapoints[1]
           fm == GroupFacets(id, facets)
           hit == {g \in 1..Len(groups) : groups[g].facets = fm}
       IN GroupInto(
            IF hit = {}
            THEN Append(groups, [data |-> <<id>>, facets |-> fm])
            ELSE [g \in 1..Len(groups) |->
                    IF g \in hit
                    THEN [groups[g] EXCEPT !.data = Append(@, id)]
                    ELSE groups[g]],
            Tail(datapoints), facets)

groupExamplesByFeatures(datapoints, facets) == GroupInto(<<>>, datapoints, facets)

RECURSIVE AddGroups(_, _, _, _)
AddGroups(M, E, groups, source) ==
  IF groups = <<>> THEN M
  ELSE AddGroups(addMetrics(M, E, groups[1].data, source,
                            SomeFacetMap(groups[1].facets), NoName),
                 E, Tail(groups), source)

updateFacetedMetrics(M, E, datapoints, isSelection) ==
  IF Len(E.selectedFacets) > 0
  THEN AddGroups(M, E, groupExamplesByFeatures(datapoints, E.selectedFacets),
                 IF isSelection THEN SELECTION ELSE DATASET)
  ELSE M

\* updateAllFacetedMetrics without its delete loop
updateAllFacetedMetricsKeepsRows(M, E) ==
  IF Len(E.selectedFacets) > 0
  THEN updateFacetedMetrics(updateFacetedMetrics(M, E, E.selection, TRUE),
                            E, E.dataset, FALSE)
  ELSE M

updateAllFacetedMetrics(M, E) ==
  LET M1 == [M EXCEPT !.metricsMap = EvictFaceted(@)]
  IN IF Len(E.selectedFacets) > 0
     THEN updateFacetedMetrics(updateFacetedMetrics(M1, E, E.selection, TRUE),
                               E, E.dataset, FALSE)
     ELSE M1

\* the loop over the slice names without its test of data.length
RECURSIVE AddSlicesUnguarded(_, _, _)
AddSlicesUnguarded(M, E, ss) ==
  IF ss = <<>> THEN M
  ELSE LET name == ss[1].name
           data == (CHOOSE s \in {E.slices[i] : i \in 1..Len(E.slices)} :
                      s.name = name).data
       IN AddSlicesUnguarded(
            addMetrics(M, E, data, SLICE, NoFacetMap, SomeName(name)),
            E, Tail(ss))

RECURSIVE AddSlices(_, _, _)
AddSlices(M, E, ss) ==
  IF ss = <<>> THEN M
  ELSE LET name == ss[1].name
           \* sliceService.getSliceDataByName(name)
           data == (CHOOSE s \in {E.slices[i] : i \in 1..Len(E.slices)} :
                      s.name = name).data
       IN AddSlices(IF Len(data) > 0
                    THEN addMetrics(M, E, data, SLICE, NoFacetMap, SomeName(name))
                    ELSE M,
                    E, Tail(ss))

updateSliceMetrics(M, E) ==
  LET M1 == [M EXCEPT !.metricsMap = EvictSlices(@)]
  IN IF E.facetBySlice THEN AddSlices(M1, E, E.slices) ELSE M1

-----------------------------------------------------------------------------
(* The reactions registered in firstUpdated. *)

\* the reaction to selectionService.selectedInputData
SelectionReaction(M, E) ==
  LET M1 == [M EXCEPT !.metricsMap = EvictSelection(@)]
  IN IF Len(E.selection) > 0
     THEN updateFacetedMetrics(
            addMetrics(M1, E, E.selection, SELECTION, NoFacetMap, NoName),
            E, E.selection, TRUE)
     ELSE M1

\* the reaction to appState.currentInputData and to allMarginSettings, and the
\* manual first run
DatasetReaction(M, E) ==
  updateAllFacetedMetrics(
    addMetrics(M, E, E.dataset, DATASET, NoFacetMap, NoName), E)

Install(M) ==
  /\ Len(M.calls) <= MaxCalls
  /\ Cardinality(M.sent) <= MaxSent
  /\ metricsMap' = M.metricsMap
  /\ pendingCalls' = M.pendingCalls
  /\ calls' = M.calls
  /\ sent' = M.sent
  /\ lastSettled' = {e \in lastSettled : KeyIndex(M.metricsMap, e.key) > 0}

\* this.facetBySlice = true in the reaction to sliceNames, written as a flip
ToggleFlipsOnSlices(b) == ~b

\* this.facetBySlice = true in the reaction to sliceNames
ToggleOnSlices(b) == TRUE

\* this.facetBySlice = !this.facetBySlice in onSlicesCheckboxChecked
ToggleOnCheckbox(b) == ~b

\* a new task may start: the module is set up and no continuation is ready
TaskReady == pc = "ready" /\ NoMicrotask

\* a state-change notification is delivered
Notified == TaskReady /\ events < MaxEvents /\ events' = events + 1

-----------------------------------------------------------------------------
(* The state after construction, and the tasks. *)

Init ==
  /\ pc = "constructed"
  /\ currentInputData \in DataChoices
  /\ selectedInputData = <<>>
  /\ currentModels \in ModelChoices
  /\ marginSettings = [m \in AllModels |-> 0]
  /\ slices = <<>>
  /\ metricsMap = <<>>
  /\ facetBySlice = FALSE
  /\ selectedFacets = <<>>
  /\ pendingCalls = 0
  /\ calls = <<>>
  /\ sent = {}
  /\ events = 0
  /\ lastSettled = {}
  /\ keyArgs = <<>>
  /\ keyOut = <<>>

FirstUpdated ==
  /\ pc = "constructed"
  /\ pc' = "ready"
  /\ Install(DatasetReaction(SelectionReaction(Mod, Env), Env))
  /\ UNCHANGED <<envVars, facetBySlice, selectedFacets, events, keyVars>>

DatasetChanged ==
  /\ Notified
  /\ \E d \in DataChoices \ {currentInputData} :
       /\ currentInputData' = d
       /\ Install(DatasetReaction(Mod, [Env EXCEPT !.dataset = d]))
  /\ UNCHANGED <<pc, selectedInputData, currentModels, marginSettings, slices,
                 facetBySlice, selectedFacets, keyVars>>

SelectionChanged ==
  /\ Notified
  /\ \E s \in SelectionChoices \ {selectedInputData} :
       /\ selectedInputData' = s
       /\ Install(SelectionReaction(Mod, [Env EXCEPT !.selection = s]))
  /\ UNCHANGED <<pc, currentInputData, currentModels, marginSettings, slices,
                 facetBySlice, selectedFacets, keyVars>>

MarginsChanged ==
  /\ Notified
  /\ \E m \in {currentModels[i] : i \in 1..Len(currentModels)} :
     \E v \in MarginChoices \ {marginSettings[m]} :
       /\ marginSettings' = [marginSettings EXCEPT ![m] = v]
       /\ Install(DatasetReaction(Mod, [Env EXCEPT !.margins = marginSettings']))
  /\ UNCHANGED <<pc, currentInputData, selectedInputData, currentModels, slices,
                 facetBySlice, selectedFacets, keyVars>>

SliceNamesChanged ==
  /\ Notified
  /\ \E ss \in SliceChoices \ {slices} :
       /\ slices' = ss
       /\ facetBySlice' = ToggleOnSlices(facetBySlice)
       /\ Install(updateSliceMetrics(Mod, [Env EXCEPT !.slices = ss,
                                                      !.facetBySlice = facetBySlice']))
  /\ UNCHANGED <<pc, currentInputData, selectedInputData, currentModels,
                 marginSettings, selectedFacets, keyVars>>

\* onFeatureCheckboxChange: the box of key was ticked (key is not selected yet)
\* or cleared (key is selected)
FeatureCheckboxChange ==
  /\ Notified
  /\ \E key \in FeatureNames :
       LET checked == \A i \in 1..Len(selectedFacets) : selectedFacets[i] # key
           index == CHOOSE i \in 1..Len(selectedFacets) : selectedFacets[i] = key
           facets == IF checked
                     THEN Append(selectedFacets, key)
                     ELSE SubSeq(selectedFacets, 1, index - 1)
                          \o SubSeq(selectedFacets, index + 1, Len(selectedFacets))
       IN /\ selectedFacets' = facets
          /\ Install(updateAllFacetedMetrics(Mod, [Env EXCEPT !.selectedFacets = facets]))
  /\ UNCHANGED <<pc, envVars, facetBySlice, keyVars>>

\* onSlicesCheckboxChecked: the box is disabled while every slice is empty
SlicesCheckboxChecked ==
  /\ Notified
  /\ \E i \in 1..Len(slices) : Len(slices[i].data) > 0
  /\ facetBySlice' = ToggleOnCheckbox(facetBySlice)
  /\ Install(updateSliceMetrics(Mod, [Env EXCEPT !.facetBySlice = facetBySlice']))
  /\ UNCHANGED <<pc, envVars, selectedFacets, keyVars>>

\* the backend answers one request: with one of Responses, or with a failure
Settle ==
  /\ TaskReady
  /\ \E i \in 1..Len(calls) : \E j \in 1..Len(calls[i].reqs) :
       /\ calls[i].reqs[j].st = "pending"
       /\ \/ \E r \in 1..Len(Responses) :
               calls' = [calls EXCEPT ![i].reqs[j] = Settled(calls[i], j, "ok", r)]
          \/ calls' = [calls EXCEPT ![i].reqs[j] = Settled(calls[i], j, "failed", 0)]
  /\ UNCHANGED <<pc, envVars, metricsMap, facetBySlice, selectedFacets,
                 pendingCalls, sent, events, lastSettled, keyVars>>

\* the continuation of addMetrics after its await, for the call that became
\* ready first
Resume ==
  /\ pc = "ready"
  /\ \E i \in 1..Len(calls) :
       /\ Ready(i)
       /\ \A k \in 1..(i - 1) : ~Ready(k)
       /\ LET c == calls[i]
              r == Merge(metricsMap, c)
          IN /\ pendingCalls' = IF AllState(c) = "fulfilled"
                                THEN TryDecrement(pendingCalls)
                                ELSE CatchDecrement(pendingCalls)
             /\ metricsMap' = r.mm
             /\ calls' = [calls EXCEPT ![i] = Finished(c, r.threw)]
             /\ lastSettled' = Record(lastSettled, c)
  /\ UNCHANGED <<pc, envVars, facetBySlice, selectedFacets, sent, events, keyVars>>

Next ==
  \/ FirstUpdated
  \/ DatasetChanged
  \/ SelectionChanged
  \/ MarginsChanged
  \/ SliceNamesChanged
  \/ FeatureCheckboxChange
  \/ SlicesCheckboxChecked
  \/ Settle
  \/ Resume

Spec == Init /\ [][Next]_vars

\* ENABLED <<Resume>>_vars as a state predicate: a Resume step always changes
\* calls
ResumeEnabled == pc = "ready" /\ \E i \in 1..Len(calls) : Ready(i)

\* The backend answers every request (weak fairness of Settle), every ready
\* continuation runs (weak fairness of Resume, written out with ResumeEnabled
\* for ENABLED <<Resume>>_vars), and the notifications stop after MaxEvents.
LiveSpec ==
  /\ Init /\ [][Next]_vars
  /\ WF_vars(Settle)
  /\ ([]<>(~ResumeEnabled) \/ []<><<Resume>>_vars)

-----------------------------------------------------------------------------
(* The in-flight counter. *)

\* the calls whose await has not returned
Awaiting == {i \in 1..Len(calls) : calls[i].settled = "awaiting"}

\* C1: pendingCalls is the number of addMetrics calls that were started and
\* whose batch (the joint await of its requests) has not settled: one
\* increment and one decrement per call, on success and on failure, so it is
\* never negative and is zero when no batch is unsettled.
C1_CounterCountsUnsettled ==
  /\ pendingCalls = Cardinality(Awaiting)
  /\ pendingCalls >= 0
  /\ (Awaiting = {} => pendingCalls = 0)

\* C1: one batch failed, one succeeded, and a third is still out
C1_Witness ==
  /\ pendingCalls = 1
  /\ \E i \in 1..Len(calls) : calls[i].settled = "rejected"
  /\ \E i \in 1..Len(calls) : calls[i].settled = "fulfilled"

\* C2: when every request settles and the events stop, pendingCalls returns
\* to zero and stays there.
C2_CounterReturnsToZero == <>[](pendingCalls = 0)

\* C2: overlapping calls, one failed and one succeeded, all settled
C2_Witness ==
  /\ pendingCalls = 0
  /\ Len(calls) >= 2
  /\ \A i \in 1..Len(calls) :
       /\ calls[i].settled # "awaiting"
       /\ \A j \in 1..Len(calls[i].reqs) : calls[i].reqs[j].st # "pending"
  /\ \E i \in 1..Len(calls) : calls[i].settled = "rejected"
  /\ \E i \in 1..Len(calls) :
       calls[i].settled = "fulfilled" /\ calls[i].datapoints # <<>>

-----------------------------------------------------------------------------
(* Failures and empty batches. *)

\* call i returns from its await in this step
Resumes(i) ==
  /\ i <= Len(calls)
  /\ calls[i].settled = "awaiting"
  /\ calls'[i].settled # "awaiting"

\* C3: a batch with a failed request upserts nothing: the step in which it
\* settles, and every later answer to its other requests, leaves metricsMap as
\* it was.
C3_FailedBatchDiscarded ==
  [][\A i \in 1..Len(calls) :
       /\ (Resumes(i) /\ calls'[i].settled = "rejected")
            => metricsMap' = metricsMap
       /\ (calls[i].settled = "rejected" /\ calls'[i] # calls[i])
            => metricsMap' = metricsMap]_vars

\* C3: a batch of two models was rejected, one model's request succeeded
C3_Witness ==
  \E i \in 1..Len(calls) :
    /\ calls[i].settled = "rejected"
    /\ \E j \in 1..Len(calls[i].reqs) : calls[i].reqs[j].st = "ok"
    /\ \E j \in 1..Len(calls[i].reqs) : calls[i].reqs[j].st = "failed"

\* C4: a call with no examples sends no scoring request, and its continuation
\* leaves metricsMap unchanged.
C4_EmptyBatchNoRequestNoWrite ==
  [][\A i \in 1..Len(calls') :
       calls'[i].datapoints = <<>> =>
         /\ \A j \in 1..Len(calls'[i].models) : <<i, j>> \notin sent'
         /\ Resumes(i) => metricsMap' = metricsMap]_vars

\* C4: a call with no examples finished, with a model active and rows stored
C4_Witness ==
  /\ metricsMap # <<>>
  /\ \E i \in 1..Len(calls) :
       /\ calls[i].datapoints = <<>>
       /\ Len(calls[i].models) > 0
       /\ calls[i].settled # "awaiting"

\* C5: a call with no examples never changes pendingCalls, so the counter
\* counts only the unsettled calls that have examples.
C5_EmptyCallLeavesCounter ==
  pendingCalls = Cardinality({i \in Awaiting : calls[i].datapoints # <<>>})

\* C6: a call with no examples and a model active completes normally: its
\* promise is fulfilled, not rejected.
C6_EmptyCallFulfilled ==
  \A i \in 1..Len(calls) :
    (/\ calls[i].datapoints = <<>>
     /\ Len(calls[i].models) > 0
     /\ calls[i].settled # "awaiting")
      => calls[i].result = "fulfilled"

-----------------------------------------------------------------------------
(* getRowKey as a function: two argument tuples are drawn, then keyed. *)

KeyStrings == {"a", "a-b"}
KeyLabels == {"c", "b-c"}
KeyFacetMaps ==
  { NoFacetMap,
    SomeFacetMap(<<[name |-> "f", val |-> "x"]>>),
    SomeFacetMap(<<[name |-> "g", val |-> "x"]>>),
    SomeFacetMap(<<[name |-> "f", val |-> "x-y"]>>),
    SomeFacetMap(<<[name |-> "f", val |-> "x"], [name |-> "g", val |-> "y"]>>) }

KeyInputs ==
  [model : KeyStrings, datapointsId : KeyLabels, predKey : {"label"},
   facetMap : KeyFacetMaps]

KeyInit ==
  /\ keyArgs \in KeyInputs \X KeyInputs
  /\ keyOut = <<>>
  /\ pc = "constructed"
  /\ currentInputData = <<>>
  /\ selectedInputData = <<>>
  /\ currentModels = <<>>
  /\ marginSettings = [m \in AllModels |-> 0]
  /\ slices = <<>>
  /\ metricsMap = <<>>
  /\ facetBySlice = FALSE
  /\ selectedFacets = <<>>
  /\ pendingCalls = 0
  /\ calls = <<>>
  /\ sent = {}
  /\ events = 0
  /\ lastSettled = {}

ApplyKey ==
  /\ keyOut = <<>>
  /\ keyOut' = <<getRowKey(keyArgs[1].model, keyArgs[1].datapointsId,
                           keyArgs[1].predKey, keyArgs[1].facetMap),
                 getRowKey(keyArgs[2].model, keyArgs[2].datapointsId,
                           keyArgs[2].predKey, keyArgs[2].facetMap)>>
  /\ UNCHANGED <<pc, envVars, metricsMap, facetBySlice, selectedFacets,
                 pendingCalls, calls, sent, events, lastSettled, keyArgs>>

KeyNext == ApplyKey

KeySpec == KeyInit /\ [][KeyNext]_vars

\* C7: getRowKey is injective: argument tuples that differ in the model, the
\* label, the predKey or the facet map (its names, its values, or its being
\* there) get different keys, and equal tuples get equal keys.
C7_KeyInjective ==
  keyOut # <<>> => ((keyArgs[1] = keyArgs[2]) <=> (keyOut[1] = keyOut[2]))

-----------------------------------------------------------------------------
(* The upsert of a settled batch. *)

\* the rows after the first k writes of call c
StoreAfter(c, k) == ApplyWrites(metricsMap, SubSeq(AllWrites(c), 1, k), c)

\* the entries of headMetrics hm for generator gen
EntriesOf(hm, gen) == {j \in 1..Len(hm) : hm[j].gen = gen}

\* one write w of call c took the rows from old to new as an upsert does
UpsertOne(old, new, w, c) ==
  LET key == WriteKey(w, c)
      io == KeyIndex(old, key)
      in == KeyIndex(new, key)
  IN IF io = 0
     THEN /\ Len(new) = Len(old) + 1
          /\ in = Len(new)
          /\ \A k \in 1..Len(old) : new[k] = old[k]
          /\ new[in] = [key |-> key, model |-> w.model,
                        selection |-> RowName(c.source, c.facetMap, c.displayName),
                        exampleIds |-> c.datapoints, predKey |-> w.predKey,
                        headMetrics |-> <<[gen |-> w.gen, metrics |-> w.metrics]>>,
                        facets |-> c.facetMap, source |-> c.source]
     ELSE /\ Len(new) = Len(old)
          /\ in = io
          /\ \A k \in 1..Len(old) : k # io => new[k] = old[k]
          /\ new[io].exampleIds = c.datapoints
          /\ Cardinality(EntriesOf(new[io].headMetrics, w.gen)) = 1
          /\ \A j \in EntriesOf(new[io].headMetrics, w.gen) :
               new[io].headMetrics[j].metrics = w.metrics
          /\ \A j \in 1..Len(old[io].headMetrics) :
               old[io].headMetrics[j].gen # w.gen =>
                 \E l \in 1..Len(new[io].headMetrics) :
                   new[io].headMetrics[l] = old[io].headMetrics[j]
          /\ {new[io].headMetrics[j].gen : j \in 1..Len(new[io].headMetrics)}
               = {old[io].headMetrics[j].gen : j \in 1..Len(old[io].headMetrics)}
                   \cup {w.gen}
          /\ [new[io] EXCEPT !.exampleIds = <<>>, !.headMetrics = <<>>]
               = [old[io] EXCEPT !.exampleIds = <<>>, !.headMetrics = <<>>]

\* call i returns from its await with every request fulfilled and merges
MergesOk(i) == Resumes(i) /\ calls'[i].settled = "fulfilled" /\ AllWrites(calls[i]) # <<>>

\* C8: each write of a successful batch inserts a row when none has its key;
\* otherwise the rows stay as many, the row's exampleIds become the batch's
\* ids, the generator's entry becomes the returned metrics, and the entries of
\* the row's other generators stay as they were.
C8_WriteIsUpsert ==
  [][\A i \in 1..Len(calls) :
       MergesOk(i) =>
         LET c == calls[i]
             ws == AllWrites(c)
         IN /\ metricsMap' = StoreAfter(c, Len(ws))
            /\ \A k \in 1..Len(ws) :
                 UpsertOne(StoreAfter(c, k - 1), StoreAfter(c, k), ws[k], c)]_vars

\* C8: a row whose regression entry was replaced by a later batch while its
\* classification entry stayed
C8_Witness ==
  \E k \in 1..Len(metricsMap) :
    metricsMap[k].headMetrics =
      <<[gen |-> "classification", metrics |-> <<[name |-> "accuracy", val |-> 2]>>],
        [gen |-> "regression", metrics |-> <<[name |-> "mse", val |-> 3]>>]>>

\* C9: the upsert is idempotent: merging the batch that was just merged a
\* second time leaves the rows as the first merge left them.
C9_MergeIdempotent ==
  [][\A i \in 1..Len(calls) :
       MergesOk(i) => Merge(metricsMap', calls[i]).mm = metricsMap']_vars

\* C9: a fulfilled batch is about to be merged into rows that already hold
\* the same result of an earlier batch
C9_Witness ==
  \E i \in 1..Len(calls) :
    /\ calls[i].settled = "awaiting"
    /\ AllState(calls[i]) = "fulfilled"
    /\ AllWrites(calls[i]) # <<>>
    /\ Merge(metricsMap, calls[i]).mm = metricsMap

\* the row stored under key
RowOf(key) == metricsMap[KeyIndex(metricsMap, key)]

\* the metrics the row holds for generator gen
MetricsOf(row, gen) ==
  {row.headMetrics[j].metrics : j \in EntriesOf(row.headMetrics, gen)}

\* C10 as stated: when two or more successful batches wrote the same row key
\* and generator and the row was not deleted since, the row's exampleIds and
\* the generator's metrics are those of the batch that settled last of them.
C10_LastSettledWins ==
  \A e \in lastSettled :
    e.n >= 2 =>
      /\ KeyIndex(metricsMap, e.key) > 0
      /\ RowOf(e.key).exampleIds = e.ids
      /\ MetricsOf(RowOf(e.key), e.gen) = {e.metrics}

\* the batch that settled last of those that wrote the row under any generator
LatestOf(key) ==
  CHOOSE e \in lastSettled :
    e.key = key /\ \A d \in lastSettled : d.key = key => d.rank <= e.rank

\* C10 amended: the generator's metrics are those of the batch that settled
\* last of those that wrote the key and generator; the row's exampleIds are
\* those of the batch that settled last of those that wrote the key under any
\* generator.
C10_LastSettledWinsPerEntry ==
  \A e \in lastSettled :
    /\ KeyIndex(metricsMap, e.key) > 0
    /\ MetricsOf(RowOf(e.key), e.gen) = {e.metrics}
    /\ RowOf(e.key).exampleIds = LatestOf(e.key).ids

\* C10: two batches wrote one key and generator, a third wrote the key under
\* another generator and settled after them
C10_Witness ==
  \E e \in lastSettled : \E d \in lastSettled :
    /\ e.n >= 2
    /\ d.key = e.key /\ d.gen # e.gen
    /\ d.rank > e.rank
    /\ d.ids # e.ids

-----------------------------------------------------------------------------
(* The update routines as steps. *)

\* the calls issued in this step
NewCalls == {i \in 1..Len(calls') : i > Len(calls)}

\* a step of a task that ends with updateAllFacetedMetrics: firstUpdated, the
\* reactions to the dataset and to the margins, and the facet checkbox
RunsUpdateAllFaceted ==
  \/ pc' # pc
  \/ currentInputData' # currentInputData
  \/ marginSettings' # marginSettings
  \/ selectedFacets' # selectedFacets

\* C11: in the state right after updateAllFacetedMetrics no row with a facets
\* value is left, so none that was there before the call; when no facet
\* dimension is selected the call issued no addMetrics with a facet map.
C11_FacetedRowsEvicted ==
  [][RunsUpdateAllFaceted =>
       /\ \A k \in 1..Len(metricsMap') : metricsMap'[k].facets.isNull
       /\ \A k \in 1..Len(metricsMap) :
            ~metricsMap[k].facets.isNull
              => \A l \in 1..Len(metricsMap') : metricsMap'[l] # metricsMap[k]
       /\ selectedFacets' = <<>>
            => \A i \in NewCalls : calls'[i].facetMap.isNull]_vars

\* C11: a faceted fetch wrote its row, then the last facet dimension was
\* cleared and the row is gone
C11_Witness ==
  /\ selectedFacets = <<>>
  /\ \E i \in 1..Len(calls) :
       /\ ~calls[i].facetMap.isNull
       /\ Len(calls[i].models) > 0
       /\ calls[i].settled = "fulfilled" /\ calls[i].result = "fulfilled"
  /\ \A k \in 1..Len(metricsMap) : metricsMap[k].facets.isNull

\* the selection-changed event delivers an empty selection
SelectionEmptied == selectedInputData # <<>> /\ selectedInputData' = <<>>

DatasetReplaced == currentInputData' # currentInputData

\* C13: when the dataset is replaced, the reaction purges the non-faceted rows
\* of source Dataset before it re-adds the metrics: right after the reaction
\* none of the rows computed for the previous dataset is in the store.
C13_DatasetRowsPurged ==
  [][DatasetReplaced =>
       \A k \in 1..Len(metricsMap) :
         (metricsMap[k].source = DATASET /\ metricsMap[k].facets.isNull)
           => KeyIndex(metricsMap', metricsMap[k].key) = 0]_vars

\* a step of a task that runs updateSliceMetrics: the reaction to the slice
\* names and the slices checkbox
RunsUpdateSlice == slices' # slices \/ facetBySlice' # facetBySlice

\* the named slices with members, in the order of the slice names
NonEmptySlices(ss) == SelectSeq(ss, LAMBDA sl : Len(sl.data) > 0)

\* C14: a run of updateSliceMetrics removes every row of source Slice and
\* leaves the others; with slice-faceting enabled it issues one addMetrics per
\* named slice that has members, of source Slice, with no facet map and the
\* slice's name as display name; with slice-faceting disabled it issues none.
C14_SliceMetricsRun ==
  [][RunsUpdateSlice =>
       LET named == NonEmptySlices(slices')
       IN /\ metricsMap' = SelectSeq(metricsMap, LAMBDA row : row.source # SLICE)
          /\ SubSeq(calls', 1, Len(calls)) = calls
          /\ facetBySlice' =>
               /\ Len(calls') = Len(calls) + Len(named)
               /\ \A k \in 1..Len(named) :
                    LET c == calls'[Len(calls) + k]
                    IN /\ c.source = SLICE
                       /\ c.facetMap = NoFacetMap
                       /\ c.displayName = SomeName(named[k].name)
                       /\ c.datapoints = named[k].data
          /\ ~facetBySlice' => calls' = calls]_vars

\* C14: a Slice fetch wrote its row into an empty store, then slice-faceting
\* was disabled and the row is gone
C14_Witness ==
  /\ ~facetBySlice
  /\ \E i \in 1..Len(calls) :
       /\ calls[i].source = SLICE
       /\ Len(calls[i].models) > 0
       /\ calls[i].settled = "fulfilled" /\ calls[i].result = "fulfilled"
  /\ metricsMap = <<>>

\* the slice-set-changed event
SliceSetChanged == slices' # slices

\* the module's state after updateSliceMetrics ran once on the state before
\* the step, with the slices and the toggle of the state after it
AfterSliceRun ==
  updateSliceMetrics(Mod, [Env EXCEPT !.slices = slices',
                                      !.facetBySlice = facetBySlice'])

\* C20: a slice-set-changed event leaves facetBySlice enabled whatever it was
\* and runs updateSliceMetrics once; only the slices checkbox handler turns
\* facetBySlice off, and the dataset, selection, calibration and facet
\* events, the backend's answers and the continuations leave it as it is.
C20_SliceToggle ==
  [][/\ SliceSetChanged =>
          /\ facetBySlice' = TRUE
          /\ metricsMap' = AfterSliceRun.metricsMap
          /\ calls' = AfterSliceRun.calls
          /\ pendingCalls' = AfterSliceRun.pendingCalls
     /\ (facetBySlice /\ ~facetBySlice') => SlicesCheckboxChecked
     /\ (\/ pc' # pc
         \/ currentInputData' # currentInputData
         \/ selectedInputData' # selectedInputData
         \/ marginSettings' # marginSettings
         \/ selectedFacets' # selectedFacets
         \/ Settle
         \/ Resume) => facetBySlice' = facetBySlice]_vars

\* C20: the slice set changed while facetBySlice was off (it is off at the
\* start) and the toggle is on, with the fetch of the slice issued
C20_Witness ==
  /\ events = 1
  /\ slices # <<>>
  /\ facetBySlice
  /\ \E i \in 1..Len(calls) : calls[i].source = SLICE

-----------------------------------------------------------------------------
(* tableData and the table's onClick. *)

\* the columns a row's headMetrics names: `${metricsType}: ${metricName}` with
\* the two parts split(": ") gives back (no name of the model holds ": ")
RECURSIVE MetricColumns(_, _)
MetricColumns(gen, metrics) ==
  IF metrics = <<>> THEN <<>>
  ELSE <<[label |-> gen \o ": " \o metrics[1].name,
          metricsType |-> gen, metricName |-> metrics[1].name]>>
       \o MetricColumns(gen, Tail(metrics))

RECURSIVE HeadColumns(_)
HeadColumns(hm) ==
  IF hm = <<>> THEN <<>>
  ELSE MetricColumns(hm[1].gen, hm[1].metrics) \o HeadColumns(Tail(hm))

RECURSIVE RowsColumns(_)
RowsColumns(mm) ==
  IF mm = <<>> THEN <<>>
  ELSE HeadColumns(mm[1].headMetrics) \o RowsColumns(Tail(mm))

\* allMetricNames.add over a list: a Set keeps the first place of each name
RECURSIVE AddAll(_, _)
AddAll(names, cols) ==
  IF cols = <<>> THEN names
  ELSE AddAll(IF \E i \in 1..Len(names) : names[i].label = cols[1].label
              THEN names
              ELSE Append(names, cols[1]),
              Tail(cols))

\* metricNames = [...allMetricNames]
MetricNames(mm) == AddAll(<<>>, RowsColumns(mm))

\* the cell of one metric column: '-' when the row has no such generator or
\* no such metric, else the number (the model's metric values are whole, so
\* toFixed is not reached)
MetricCell(row, col) ==
  LET es == {j \in 1..Len(row.headMetrics) :
               row.headMetrics[j].gen = col.metricsType}
  IN IF es = {} THEN "-"
     ELSE LET ms == row.headMetrics[CHOOSE j \in es : TRUE].metrics
              hit == {k \in 1..Len(ms) : ms[k].name = col.metricName}
          IN IF hit = {} THEN "-" ELSE ms[CHOOSE k \in hit : TRUE].val

\* the "Facet by" cells, made only for the rows that have a facet map
RowFacetsOfFaceted(row, facets) ==
  IF row.facets.isNull THEN <<>>
  ELSE [i \in 1..Len(facets) |->
          LET hit == {k \in 1..Len(row.facets.kv) : row.facets.kv[k].name = facets[i]}
          IN IF hit = {} THEN "-" ELSE row.facets.kv[CHOOSE k \in hit : TRUE].val]

\* the "Facet by" cells of a row: one per selected facet, '-' when the row
\* has no facet map or no value for the facet
RowFacets(row, facets) ==
  [i \in 1..Len(facets) |->
     IF row.facets.isNull THEN "-"
     ELSE LET hit == {k \in 1..Len(row.facets.kv) : row.facets.kv[k].name = facets[i]}
          IN IF hit = {} \/ row.facets.kv[CHOOSE k \in hit : TRUE].val = ""
             THEN "-"
             ELSE row.facets.kv[CHOOSE k \in hit : TRUE].val]

\* the rows pushed so far, then the row of the next store entry
RECURSIVE TableRows(_, _, _, _)
TableRows(rows, rest, facets, metricNames) ==
  IF rest = <<>> THEN rows
  ELSE LET row == rest[1]
           rowMetrics == [i \in 1..Len(metricNames) |-> MetricCell(row, metricNames[i])]
           tableRow == <<Len(rows), row.model, row.selection, row.predKey,
                         Len(row.exampleIds)>>
                       \o RowFacets(row, facets) \o rowMetrics
       IN TableRows(Append(rows, tableRow), Tail(rest), facets, metricNames)

tableData(mm, facets) ==
  LET metricNames == MetricNames(mm)
      nonMetricNames == <<"Model", "From", "Field", "N">>
  IN [header |-> <<"id">> \o nonMetricNames \o facets
                 \o [i \in 1..Len(metricNames) |-> metricNames[i].label],
      data |-> TableRows(<<>>, mm, facets, metricNames)]

\* Object.values(this.metricsMap)[selectedIndex].exampleIds
onClick(mm, selectedIndex) == mm[selectedIndex + 1].exampleIds

\* the metric columns observed in the store: the pairs of generator and metric
MetricsOfHead(hm) ==
  UNION {{<<hm[j].gen, hm[j].metrics[l].name>> : l \in 1..Len(hm[j].metrics)} :
           j \in 1..Len(hm)}

ObservedMetrics ==
  UNION {MetricsOfHead(metricsMap[k].headMetrics) : k \in 1..Len(metricsMap)}

\* table t is the projection of the store that C15 describes
TableOk(t) ==
  /\ Len(t.data) = Len(metricsMap)
  /\ Len(t.header) = 5 + Len(selectedFacets) + Cardinality(ObservedMetrics)
  /\ \A i \in 1..Len(metricsMap) :
       /\ t.data[i][1] = i - 1
       /\ t.data[i][2] = metricsMap[i].model
       /\ t.data[i][3] = metricsMap[i].selection
       /\ t.data[i][4] = metricsMap[i].predKey
       /\ t.data[i][5] = Len(metricsMap[i].exampleIds)
       /\ Len(t.data[i]) = Len(t.header)
       /\ onClick(metricsMap, t.data[i][1]) = metricsMap[i].exampleIds

\* C15: the table has one data row per store entry, in the store's order; the
\* row of entry i (from 0) has i as its index cell, the entry's model, label
\* and field, the number of its exampleIds as its count cell, and as many
\* cells as the header, which has 5 fixed columns, one per selected facet and
\* one per observed metric column; a click on the row's index gives the
\* exampleIds of that entry.
C15_TableProjection == TableOk(tableData(metricsMap, selectedFacets))

\* C15: a facet is selected, the store has a faceted row and a row without
\* facets with different example counts, and one row lacks a metric column
\* that another has
C15_Witness ==
  /\ selectedFacets # <<>>
  /\ Cardinality(ObservedMetrics) = 2
  /\ \E i \in 1..Len(metricsMap) : \E j \in 1..Len(metricsMap) :
       /\ i < j
       /\ metricsMap[i].facets.isNull /\ ~metricsMap[j].facets.isNull
       /\ Len(metricsMap[i].exampleIds) # Len(metricsMap[j].exampleIds)
       /\ Len(metricsMap[i].headMetrics) # Len(metricsMap[j].headMetrics)

-----------------------------------------------------------------------------
(* Fetches that settle after the state they were issued for has changed. *)

\* C16: whenever no facet dimension is selected and no addMetrics call is in
\* flight, the store has no row with a facets value.
C16_NoFacetedRowsWhenUnfaceted ==
  (selectedFacets = <<>> /\ pendingCalls = 0 /\ Awaiting = {})
    => \A k \in 1..Len(metricsMap) : metricsMap[k].facets.isNull

\* C17: whenever no addMetrics call is in flight, every row of source
\* Selection without facets has the ids of the current selection as its
\* exampleIds; so there is none while the selection is empty.
C17_SelectionRowsCurrent ==
  (pendingCalls = 0 /\ Awaiting = {}) =>
    \A k \in 1..Len(metricsMap) :
      (metricsMap[k].source = SELECTION /\ metricsMap[k].facets.isNull)
        => /\ metricsMap[k].exampleIds = selectedInputData
           /\ selectedInputData # <<>>

\* C18: every write of a batch goes to a row whose source tag is the source
\* of the batch's call, whatever the slices are named; so the batch of a
\* Slice call changes no row of source Dataset or Selection.
C18_SourceTagOfWriters ==
  [][\A i \in 1..Len(calls) :
       MergesOk(i) =>
         LET c == calls[i]
             ws == AllWrites(c)
         IN /\ \A k \in 1..Len(ws) :
                 metricsMap'[KeyIndex(metricsMap', WriteKey(ws[k], c))].source = c.source
            /\ c.source = SLICE =>
                 \A k \in 1..Len(metricsMap) :
                   metricsMap[k].source # SLICE => metricsMap'[k] = metricsMap[k]]_vars

-----------------------------------------------------------------------------
(* Calibration. *)

\* every call issued so far returned from its await with every request
\* fulfilled, and finished
AllSettledOk ==
  /\ pendingCalls = 0
  /\ \A i \in 1..Len(calls) :
       calls[i].settled = "fulfilled" /\ calls[i].result = "fulfilled"

\* C19: once every addMetrics call has settled successfully, the metrics last
\* written to every row of an active model were requested with the margin
\* config now in effect for the model.
C19_RowsUseCurrentMargins ==
  AllSettledOk =>
    \A e \in lastSettled :
      (\E j \in 1..Len(currentModels) : currentModels[j] = e.model)
        => LatestOf(e.key).config = marginSettings[e.model]

====
